---------------------------- MODULE Spec2Model ----------------------------
(***************************************************************************)
(* zerver/lib/management.py: the lookup helpers of ZulipBaseCommand        *)
(* (get_realm, get_user, get_users) and check_config, over a database of   *)
(* Realm and UserProfile rows and a settings object.                       *)
(*                                                                         *)
(* Python strings are sequences of one-character strings, so that strip(), *)
(* split(","), int() and the case folding of __iexact are computed.        *)
(* Optional[T] arguments are sets of at most one element ({} is None).     *)
(***************************************************************************)
EXTENDS Integers, Sequences, FiniteSets, TLC

VARIABLES realms, users, settings, required, pc, call, result

vars == <<realms, users, settings, required, pc, call, result>>

----------------------------------------------------------------------------
(* Bounds of the model. *)

\* rows of the UserProfile table
MaxUsers == 2
\* rows of the Realm table
MaxRealms == 2
\* characters of a --realm argument
MaxRealmArgLen == 3
\* whitespace characters on either side of an email passed to get_user
MaxPad == 1
\* comma-separated entries of a --users argument
MaxEntries == 2
\* entries of REQUIRED_SETTINGS
MaxRequired == 2

----------------------------------------------------------------------------
(* Python values *)

\* the value None where a str is expected (no string of the model has a
\* character of more than one letter)
NoneStr == <<"None">>

Str(S, n) == UNION {[1..k -> S] : k \in 0..n}

RECURSIVE Subsets(_, _)
\* the subsets of S with at most k elements
Subsets(S, k) ==
    IF k = 0 THEN {{}}
    ELSE LET P == Subsets(S, k - 1)
         IN  P \cup {T \cup {x} : T \in P, x \in S}

IsSpace(c) == c = " "

RECURSIVE lstrip(_)
lstrip(s) ==
    IF s # <<>> /\ IsSpace(Head(s)) THEN lstrip(Tail(s)) ELSE s

RECURSIVE rstrip(_)
rstrip(s) ==
    IF s # <<>> /\ IsSpace(s[Len(s)]) THEN rstrip(SubSeq(s, 1, Len(s) - 1)) ELSE s

\* str.strip()
strip(s) == rstrip(lstrip(s))

\* the case folding of the two sides of an __iexact comparison
UpperChar(c) == IF c = "a" THEN "A" ELSE IF c = "b" THEN "B" ELSE c

upper(s) == [i \in 1..Len(s) |-> UpperChar(s[i])]

iexact(column, value) == upper(column) = upper(value)

RECURSIVE split(_, _)
\* str.split(sep) for a one-character sep: never empty, "" splits to [""]
split(s, sep) ==
    IF \E i \in 1..Len(s) : s[i] = sep
    THEN LET i == CHOOSE j \in 1..Len(s) : s[j] = sep /\ \A k \in 1..(j - 1) : s[k] # sep
         IN  <<SubSeq(s, 1, i - 1)>> \o split(SubSeq(s, i + 1, Len(s)), sep)
    ELSE <<s>>

Digits == {"0", "1", "2"}

DigitVal(c) == IF c = "0" THEN 0 ELSE IF c = "1" THEN 1 ELSE 2

RECURSIVE DigitsVal(_)
DigitsVal(s) ==
    IF s = <<>> THEN 0 ELSE 10 * DigitsVal(SubSeq(s, 1, Len(s) - 1)) + DigitVal(s[Len(s)])

\* int(val) raises ValueError unless val, stripped of surrounding
\* whitespace, is an optional sign followed by one or more digits
IntBody(s) == IF s # <<>> /\ Head(s) = "-" THEN Tail(s) ELSE s

IntParses(s) ==
    LET b == IntBody(strip(s))
    IN  b # <<>> /\ \A i \in 1..Len(b) : b[i] \in Digits

int(s) ==
    LET t == strip(s)
    IN  IF t # <<>> /\ Head(t) = "-" THEN 0 - DigitsVal(Tail(t)) ELSE DigitsVal(t)

is_integer_string(val) == IntParses(val)

----------------------------------------------------------------------------
(* Exceptions and returns *)

Return(v) == [kind |-> "return", value |-> v]

CommandError(text, detail) == [kind |-> "CommandError", text |-> text, detail |-> detail]

Raise(kind) == [kind |-> kind]

Idle == [op |-> "none"]

\* the texts of the errors raised, before their fields are filled in
NoSuchRealm == "There is no realm with id '{}'. Aborting."

NoUserInRealm == "The realm '{realm}' does not contain a user with email '{email}'"

\* (the source quotes --realm in backticks)
MultipleUsers == "This Zulip server contains multiple users with that email (in different realms); please pass --realm to specify which one to modify."

NoUserOnServer == "This Zulip server does not contain a user with email '{email}'"

NeitherText == "You have to pass either -u/--users or -a/--all-users."

BothText == "You can't use both -u/--users and -a/--all-users."

NeedsRealmText == "The --all-users option requires a realm; please pass --realm."

MustSetText == "Error: You must set {setting_name} in /etc/zulip/settings.py."

----------------------------------------------------------------------------
(* The Realm table and get_realm *)

\* Realm.id values of stored realms
RealmIds == {1, 2, 12}

RealmArgChars == {"0", "1", "2", "a", "-", " "}

\* string_id values of stored realms: "" is the root-domain realm
Slugs == {<<>>, <<"1">>, <<"2">>, <<"a">>, <<"a", "1">>}

RealmRows == [id : RealmIds, string_id : Slugs]

\* id is the primary key and string_id is unique
RealmTables ==
    {T \in Subsets(RealmRows, MaxRealms) :
        \A r1, r2 \in T : (r1.id = r2.id \/ r1.string_id = r2.string_id) => r1 = r2}

\* Realm.objects.get(id=val): the integer field converts val with int()
RealmById(val) == {r \in realms : r.id = int(val)}

\* Realm.objects.get(string_id=val)
RealmBySlug(val) == {r \in realms : r.string_id = val}

\* QuerySet.get() over the rows a query selects
Get(rows) ==
    IF rows = {} THEN Raise("DoesNotExist")
    ELSE IF Cardinality(rows) > 1 THEN Raise("MultipleObjectsReturned")
    ELSE Return(CHOOSE r \in rows : TRUE)

\* a lookup that tries the slug first and the numeric id only after it
RealmQuerySlugFirst(val) ==
    IF RealmBySlug(val) # {} THEN RealmBySlug(val)
    ELSE IF is_integer_string(val) THEN RealmById(val)
    ELSE {}

RealmQuery(val) == IF is_integer_string(val) THEN RealmById(val) ELSE RealmBySlug(val)

\* a get_realm that does not catch Realm.DoesNotExist
get_realm_uncaught(options) ==
    LET val == options.realm_id
    IN  IF val = NoneStr THEN Return(NoneStr) ELSE Get(RealmQuery(val))

get_realm(options) ==
    LET val == options.realm_id
    IN  IF val = NoneStr THEN Return(NoneStr)
        ELSE LET got == Get(RealmQuery(val))
             IN  IF got.kind = "DoesNotExist"
                 THEN CommandError(NoSuchRealm, options.realm_id)
                 ELSE got

RealmArgs == {NoneStr} \cup Str(RealmArgChars, MaxRealmArgLen)

GetRealm ==
    /\ pc = "idle"
    /\ \E val \in RealmArgs :
          LET options == [realm_id |-> val]
          IN  /\ call' = [op |-> "get_realm", options |-> options]
              /\ result' = get_realm(options)
    /\ pc' = "done"
    /\ UNCHANGED <<realms, users, settings, required>>

\* the command ends; the next invocation starts from the same database
Finish ==
    /\ pc = "done"
    /\ pc' = "idle"
    /\ call' = Idle
    /\ result' = Idle
    /\ UNCHANGED <<realms, users, settings, required>>

InitRealm ==
    /\ realms \in RealmTables
    /\ users = {}
    /\ settings = <<>>
    /\ required = <<>>
    /\ pc = "idle"
    /\ call = Idle
    /\ result = Idle

NextRealm == GetRealm \/ Finish

SpecRealm == InitRealm /\ [][NextRealm]_vars

----------------------------------------------------------------------------
(* The UserProfile table and get_user *)

\* the realms that have users
UserRealms == {1, 2}

\* delivery_email values of stored users
UserEmails == {<<"a">>, <<"A">>, <<"b">>}

UserRows(stored_emails) ==
    [delivery_email : stored_emails, realm : UserRealms, is_active : BOOLEAN, is_bot : BOOLEAN]

\* nothing in this file keeps the emails of a realm distinct: two rows of a
\* realm may hold the same email, in the same or in another letter case
UserTables(stored_emails) == Subsets(UserRows(stored_emails), MaxUsers)

\* UserProfile.objects.filter(delivery_email__iexact=email)
ByEmail(rows, email) == {u \in rows : iexact(u.delivery_email, email)}

\* UserProfile.objects.filter(realm=realm)
ByRealm(rows, realm) == {u \in rows : u.realm \in realm}

\* a lookup that does not restrict the query to the realm
UserAnywhere(email, realm) == Get(ByEmail(users, strip(email)))

\* the lookup of get_user when a realm is given
UserInRealm(email, realm) == Get(ByRealm(ByEmail(users, strip(email)), realm))

\* a lookup that takes the first row, as .filter(...).first() would
UserOnServerFirst(email) ==
    LET rows == ByEmail(users, strip(email))
    IN  IF rows = {} THEN Raise("DoesNotExist") ELSE Return(CHOOSE u \in rows : TRUE)

\* the lookup of get_user when realm is None
UserOnServer(email) == Get(ByEmail(users, strip(email)))

get_user(email, realm) ==
    IF realm # {}
    THEN LET got == UserInRealm(email, realm)
         IN  IF got.kind = "DoesNotExist"
             THEN CommandError(NoUserInRealm, [realm |-> realm, email |-> email])
             ELSE got
    ELSE LET got == UserOnServer(email)
         IN  IF got.kind = "MultipleObjectsReturned"
             THEN CommandError(MultipleUsers, <<>>)
             ELSE IF got.kind = "DoesNotExist"
             THEN CommandError(NoUserOnServer, [email |-> email])
             ELSE got

\* Optional[Realm] arguments
RealmArg == {{}} \cup {{r} : r \in UserRealms}

Spaces == Str({" "}, MaxPad)

\* emails as typed on a command line: possibly empty, in either case,
\* possibly surrounded by whitespace
EmailArgs == {l \o e \o r : l \in Spaces, r \in Spaces, e \in UserEmails \cup {<<>>}}

GetUser ==
    /\ pc = "idle"
    /\ \E email \in EmailArgs, realm \in RealmArg :
          /\ call' = [op |-> "get_user", email |-> email, realm |-> realm]
          /\ result' = get_user(email, realm)
    /\ pc' = "done"
    /\ UNCHANGED <<realms, users, settings, required>>

InitUser ==
    /\ realms = {[id |-> 1, string_id |-> <<>>], [id |-> 2, string_id |-> <<"a">>]}
    /\ users \in UserTables(UserEmails)
    /\ settings = <<>>
    /\ required = <<>>
    /\ pc = "idle"
    /\ call = Idle
    /\ result = Idle

NextUser == GetUser \/ Finish

SpecUser == InitUser /\ [][NextUser]_vars

----------------------------------------------------------------------------
(* get_users *)

Range(f) == {f[i] : i \in DOMAIN f}

\* the iteration orders of a Python set: each element once, in any order
Orders(S) ==
    {f \in [1..Cardinality(S) -> S] : \A i, j \in DOMAIN f : f[i] = f[j] => i = j}

RECURSIVE join(_, _)
\* sep.join(parts)
join(parts, sep) ==
    IF Len(parts) = 0 THEN <<>>
    ELSE IF Len(parts) = 1 THEN parts[1]
    ELSE parts[1] \o <<sep>> \o join(Tail(parts), sep)

\* the entries without the strip()
emails_unstripped(users_arg) == Range(split(users_arg, ","))

\* {email.strip() for email in options["users"].split(",")}
emails(users_arg) == {strip(e) : e \in Range(split(users_arg, ","))}

\* bool(options["users"]): None and "" are false
Truthy(users_arg) == users_arg # NoneStr /\ users_arg # <<>>

\* a filter that keeps deactivated users whatever include_deactivated is
AllUsersWithInactive(realm, is_bot, include_deactivated) ==
    LET in_realm == ByRealm(users, realm)
    IN  IF is_bot # {} THEN {u \in in_realm : u.is_bot \in is_bot} ELSE in_realm

\* the QuerySet returned for --all-users
AllUsers(realm, is_bot, include_deactivated) ==
    LET in_realm == ByRealm(users, realm)
        active == IF ~include_deactivated THEN {u \in in_realm : u.is_active} ELSE in_realm
    IN  IF is_bot # {} THEN {u \in active : u.is_bot \in is_bot} ELSE active

RECURSIVE Resolve(_, _)
\* the loop appending self.get_user(email, realm) for email in emails; the
\* first exception leaves the loop and the function
Resolve(order, realm) ==
    IF order = <<>> THEN Return(<<>>)
    ELSE LET got == get_user(Head(order), realm)
         IN  IF got.kind # "return" THEN got
             ELSE LET rest == Resolve(Tail(order), realm)
                  IN  IF rest.kind # "return" THEN rest
                      ELSE Return(<<got.value>> \o rest.value)

HasKey(options, key) == key \in DOMAIN options

\* if not options["users"] and not all_users
NeitherGiven(options) == ~Truthy(options.users) /\ ~options.all_users

\* if options["users"] and all_users
BothGiven(options) == Truthy(options.users) /\ options.all_users

\* the realm check left out
AllWithoutRealmUnchecked(options, realm) == FALSE

\* if all_users and realm is None
AllWithoutRealm(options, realm) == options.all_users /\ realm = {}

\* `if not options["users"]` in place of `is None`
NoListFalsy(options) == ~Truthy(options.users)

\* if options["users"] is None
NoList(options) == options.users = NoneStr

get_users(options, realm, is_bot, include_deactivated, order) ==
    LET has_all == HasKey(options, "all_users")
        has_users == HasKey(options, "users")
    IN  IF has_all /\ ~has_users THEN Raise("KeyError")
        ELSE IF has_all /\ NeitherGiven(options) THEN CommandError(NeitherText, <<>>)
        ELSE IF has_all /\ BothGiven(options) THEN CommandError(BothText, <<>>)
        ELSE IF has_all /\ AllWithoutRealm(options, realm) THEN CommandError(NeedsRealmText, <<>>)
        ELSE IF has_all /\ options.all_users
        THEN Return(AllUsers(realm, is_bot, include_deactivated))
        ELSE IF ~has_users THEN Raise("KeyError")
        ELSE IF NoList(options) THEN Return(<<>>)
        ELSE Resolve(order, realm)

\* entries of a --users argument as typed
Entries == {<<"a">>, <<" ", "a">>, <<"A">>, <<"b">>}

UsersArgs ==
    {NoneStr} \cup {join(es, ",") : es \in UNION {[1..n -> Entries] : n \in 0..MaxEntries}}

\* the parsed options: the keys are there when the command declared them
Options(users_args) ==
    {<<>>}
    \cup [all_users : BOOLEAN]
    \cup [users : users_args]
    \cup [users : users_args, all_users : BOOLEAN]

\* Optional[bool] arguments
BotArg == {{}, {TRUE}, {FALSE}}

\* the calls made: get_users(options, realm) with any --users argument, and
\* calls passing is_bot and include_deactivated with --users absent, empty
\* or a single email
GetUsersCalls ==
    [options : Options(UsersArgs), realm : RealmArg,
     is_bot : {{}}, include_deactivated : {FALSE}]
    \cup
    [options : Options({NoneStr, <<>>, <<"a">>}), realm : RealmArg,
     is_bot : BotArg, include_deactivated : BOOLEAN]

IterationOrders(options) ==
    IF HasKey(options, "users") /\ options.users # NoneStr
    THEN Orders(emails(options.users))
    ELSE {<<>>}

GetUsers ==
    /\ pc = "idle"
    /\ \E c \in GetUsersCalls :
          \E order \in IterationOrders(c.options) :
             /\ call' = [op |-> "get_users", options |-> c.options, realm |-> c.realm,
                         is_bot |-> c.is_bot, include_deactivated |-> c.include_deactivated]
             /\ result' = get_users(c.options, c.realm, c.is_bot, c.include_deactivated, order)
    /\ pc' = "done"
    /\ UNCHANGED <<realms, users, settings, required>>

\* the users that lists are resolved against: looked up as "a", " a", "A"
\* and "b" by the entries of a --users argument
InitUsers ==
    /\ realms = {[id |-> 1, string_id |-> <<>>], [id |-> 2, string_id |-> <<"a">>]}
    /\ users \in UserTables({<<"A">>, <<"b">>})
    /\ settings = <<>>
    /\ required = <<>>
    /\ pc = "idle"
    /\ call = Idle
    /\ result = Idle

NextUsers == GetUsers \/ Finish

SpecUsers == InitUsers /\ [][NextUsers]_vars

----------------------------------------------------------------------------
(* settings and check_config *)

SettingNames == {"EXTERNAL_HOST", "SECRET_KEY"}

SettingValues == {"", "zulip.example.com", "chat.acme.org"}

\* settings.REQUIRED_SETTINGS: a list of (setting_name, default)
RequiredLists ==
    UNION {[1..n -> [setting_name : SettingNames, default : {"", "zulip.example.com"}]] :
              n \in 0..MaxRequired}

\* the settings object: the names it defines, each with its value
SettingsObjects == UNION {[D -> SettingValues] : D \in SUBSET SettingNames}

\* a check that lets an absent setting pass
IsSetOrAbsent(entry) ==
    \/ entry.setting_name \notin DOMAIN settings
    \/ settings[entry.setting_name] # entry.default

\* the body of the loop of check_config for one entry: TRUE when the
\* entry is passed by `continue`
IsSet(entry) ==
    /\ entry.setting_name \in DOMAIN settings
    /\ settings[entry.setting_name] # entry.default

RECURSIVE CheckFrom(_)
CheckFrom(i) ==
    IF i > Len(required) THEN Return(NoneStr)
    ELSE IF IsSet(required[i]) THEN CheckFrom(i + 1)
    ELSE CommandError(MustSetText, required[i].setting_name)

check_config == CheckFrom(1)

CheckConfig ==
    /\ pc = "idle"
    /\ call' = [op |-> "check_config"]
    /\ result' = check_config
    /\ pc' = "done"
    /\ UNCHANGED <<realms, users, settings, required>>

InitConfig ==
    /\ realms = {}
    /\ users = {}
    /\ settings \in SettingsObjects
    /\ required \in RequiredLists
    /\ pc = "idle"
    /\ call = Idle
    /\ result = Idle

NextConfig == CheckConfig \/ Finish

SpecConfig == InitConfig /\ [][NextConfig]_vars

----------------------------------------------------------------------------
(* Properties *)

Called(op) == pc = "done" /\ call.op = op

Failed == result.kind # "return"

\* the one element of a singleton set
The(S) == CHOOSE x \in S : TRUE

RealmArgOf == call.options.realm_id

\* s is one or more digits and nothing else
OnlyDigits(s) == s # <<>> /\ \A i \in 1..Len(s) : s[i] \in {"0", "1", "2"}

WithId(n) == {r \in realms : r.id = n}

WithSlug(s) == {r \in realms : r.string_id = s}

\* C5: a --realm argument made only of digits is looked up by numeric id,
\* never by slug: the realm with that id is returned if there is one, and
\* the call fails if there is none, whatever the slugs are; an argument
\* that does not parse as an integer is looked up by slug only.
C5_DigitsAreIds ==
    (Called("get_realm") /\ RealmArgOf # NoneStr) =>
        /\ OnlyDigits(RealmArgOf) =>
              IF WithId(DigitsVal(RealmArgOf)) # {}
              THEN result = Return(The(WithId(DigitsVal(RealmArgOf))))
              ELSE Failed
        /\ ~IntParses(RealmArgOf) =>
              IF WithSlug(RealmArgOf) # {}
              THEN result = Return(The(WithSlug(RealmArgOf)))
              ELSE Failed

\* a digit string that is some realm's slug and no realm's id: the call failed
C5_Witness ==
    /\ Called("get_realm")
    /\ RealmArgOf # NoneStr
    /\ OnlyDigits(RealmArgOf)
    /\ WithSlug(RealmArgOf) # {}
    /\ WithId(DigitsVal(RealmArgOf)) = {}
    /\ Failed

\* the realms the argument identifies: by id when it parses as an integer,
\* by slug when it does not
Identified(val) ==
    {r \in realms : IF IntParses(val) THEN r.id = int(val) ELSE r.string_id = val}

\* C6: get_realm returns None for no argument, returns the realm the
\* argument identifies, or raises CommandError with the argument as given in
\* its message when it identifies none.
C6_ThreeOutcomes ==
    Called("get_realm") =>
        IF RealmArgOf = NoneStr THEN result = Return(NoneStr)
        ELSE IF Identified(RealmArgOf) # {}
        THEN result.kind = "return" /\ result.value \in Identified(RealmArgOf)
        ELSE result = CommandError(NoSuchRealm, RealmArgOf)

\* an argument with surrounding whitespace that identifies no realm is named
\* in the error as it was given
C6_Witness ==
    /\ Called("get_realm")
    /\ RealmArgOf # NoneStr
    /\ strip(RealmArgOf) # RealmArgOf
    /\ realms # {}
    /\ result = CommandError(NoSuchRealm, RealmArgOf)

\* the entries of REQUIRED_SETTINGS whose setting is absent or at its default
Unset == {i \in 1..Len(required) :
             \/ required[i].setting_name \notin DOMAIN settings
             \/ settings[required[i].setting_name] = required[i].default}

\* C8: check_config returns iff every required setting exists and differs
\* from its default; otherwise it raises CommandError naming the first
\* entry, in list order, that is absent or at its default.
C8_CheckConfig ==
    Called("check_config") =>
        IF Unset = {} THEN result = Return(NoneStr)
        ELSE result = CommandError(MustSetText,
                          required[CHOOSE i \in Unset : \A j \in Unset : i <= j].setting_name)

\* two entries fail, the first of them because its setting is absent, and
\* the error names the first
C8_Witness ==
    /\ Called("check_config")
    /\ Cardinality(Unset) = 2
    /\ required[1].setting_name # required[2].setting_name
    /\ required[1].setting_name \notin DOMAIN settings
    /\ result = CommandError(MustSetText, required[1].setting_name)

\* lower-casing, and equality of two strings up to letter case
Fold(c) == IF c = "A" THEN "a" ELSE IF c = "B" THEN "b" ELSE c

SameIgnoringCase(s, t) == Len(s) = Len(t) /\ \A i \in 1..Len(s) : Fold(s[i]) = Fold(t[i])

\* s[i+1..j] is s without its leading and trailing whitespace
TrimsAt(s, i, j) ==
    /\ \A k \in 1..i : s[k] = " "
    /\ \A k \in (j + 1)..Len(s) : s[k] = " "
    /\ IF i < j THEN s[i + 1] # " " /\ s[j] # " " ELSE i = Len(s) /\ j = Len(s)

Trimmed(s) ==
    LET at == CHOOSE p \in (0..Len(s)) \X (0..Len(s)) : TrimsAt(s, p[1], p[2])
    IN  SubSeq(s, at[1] + 1, at[2])

\* the users whose email equals the trimmed input up to letter case
Matching(email) == {u \in users : SameIgnoringCase(u.delivery_email, Trimmed(email))}

MatchingIn(email, realm) == {u \in Matching(email) : u.realm \in realm}

\* C1: get_user with realm None fails with the no-such-user error when no
\* user of the server matches the email, returns the user when exactly one
\* matches, and fails with the error asking for --realm when two or more
\* match.
C1_Unscoped ==
    (Called("get_user") /\ call.realm = {}) =>
        LET M == Matching(call.email)
        IN  IF M = {} THEN result = CommandError(NoUserOnServer, [email |-> call.email])
            ELSE IF Cardinality(M) = 1 THEN result = Return(The(M))
            ELSE result = CommandError(MultipleUsers, <<>>)

\* the email matches users of two different realms and the call failed with
\* the error asking for --realm
C1_Witness ==
    /\ Called("get_user")
    /\ call.realm = {}
    /\ \E u, v \in Matching(call.email) : u.realm # v.realm
    /\ result = CommandError(MultipleUsers, <<>>)

\* C2: get_user with a realm returns only a user of that realm whose email
\* matches, returns the one user of the realm that matches when there is
\* exactly one, and fails with the error naming the realm and the email when
\* the realm has none, also when another realm has one.
C2_Scoped ==
    (Called("get_user") /\ call.realm # {}) =>
        LET M == MatchingIn(call.email, call.realm)
        IN  /\ result.kind = "return" => result.value \in M
            /\ Cardinality(M) = 1 => result = Return(The(M))
            /\ M = {} => result = CommandError(NoUserInRealm,
                                      [realm |-> call.realm, email |-> call.email])

\* the email matches no user of the realm given and a user of another realm:
\* the call failed
C2_Witness ==
    /\ Called("get_user")
    /\ call.realm # {}
    /\ MatchingIn(call.email, call.realm) = {}
    /\ Matching(call.email) # {}
    /\ result.kind = "CommandError"

\* C7: get_user either returns or raises CommandError, and nothing else.
C7_OnlyCommandError ==
    Called("get_user") => result.kind \in {"return", "CommandError"}

OptionsOf == call.options

UsersGiven == HasKey(OptionsOf, "users") /\ OptionsOf.users \notin {NoneStr, <<>>}

AllGiven == HasKey(OptionsOf, "all_users") /\ OptionsOf.all_users

\* C3: with the all_users key among the options, get_users fails when
\* neither a users list nor all_users is given, when both are given
\* (whatever the realm), and when all_users is given and the realm is None:
\* no user is returned, and with the users key there as well the failure is
\* the CommandError of that case.
C3_SelectionModes ==
    (Called("get_users") /\ HasKey(OptionsOf, "all_users")) =>
        /\ (~UsersGiven /\ ~AllGiven) =>
              /\ Failed
              /\ HasKey(OptionsOf, "users") => result = CommandError(NeitherText, <<>>)
        /\ (UsersGiven /\ AllGiven) => result = CommandError(BothText, <<>>)
        /\ (AllGiven /\ call.realm = {}) =>
              /\ Failed
              /\ HasKey(OptionsOf, "users") =>
                    (result.kind = "CommandError" /\ result.text \in {BothText, NeedsRealmText})
              /\ (HasKey(OptionsOf, "users") /\ ~UsersGiven) =>
                    result = CommandError(NeedsRealmText, <<>>)

\* all_users without a users list and without a realm, in a database that
\* has users: the call failed asking for --realm
C3_Witness ==
    /\ Called("get_users")
    /\ AllGiven
    /\ HasKey(OptionsOf, "users")
    /\ ~UsersGiven
    /\ call.realm = {}
    /\ users # {}
    /\ result = CommandError(NeedsRealmText, <<>>)

\* C4: with all_users, no users list and a realm, get_users returns exactly
\* the users of that realm that are active (or any, with
\* include_deactivated) and whose is_bot is the one asked for (or any, with
\* is_bot None).
C4_AllUsers ==
    (Called("get_users") /\ AllGiven /\ HasKey(OptionsOf, "users") /\ ~UsersGiven
        /\ call.realm # {}) =>
        result = Return({u \in users :
                            /\ u.realm = The(call.realm)
                            /\ call.include_deactivated \/ u.is_active
                            /\ call.is_bot = {} \/ u.is_bot = The(call.is_bot)})

\* the realm has a deactivated user that is left out and an active one that
\* is returned
C4_Witness ==
    /\ Called("get_users")
    /\ AllGiven
    /\ HasKey(OptionsOf, "users")
    /\ ~UsersGiven
    /\ call.realm # {}
    /\ ~call.include_deactivated
    /\ \E u \in users : u.realm \in call.realm /\ ~u.is_active
    /\ result.kind = "return"
    /\ result.value # {}

\* explicit-list mode: a users string, and all_users absent or False
ListMode ==
    /\ HasKey(OptionsOf, "users")
    /\ OptionsOf.users # NoneStr
    /\ ~AllGiven

\* the distinct trimmed entries of the users string of the call
TrimmedEntries == {Trimmed(e) : e \in Range(split(OptionsOf.users, ","))}

Count(seq, x) == Cardinality({i \in 1..Len(seq) : seq[i] = x})

\* two outcomes of get_users that are the same collection: both failures,
\* or lists with the same records the same number of times
SameCollection(r1, r2) ==
    IF r1.kind = "return" /\ r2.kind = "return"
    THEN /\ Len(r1.value) = Len(r2.value)
         /\ \A i \in 1..Len(r1.value) : Count(r1.value, r1.value[i]) = Count(r2.value, r1.value[i])
    ELSE r1.kind # "return" /\ r2.kind # "return"

\* the users strings with the entries of the call's in another order
Reordered ==
    LET es == split(OptionsOf.users, ",")
    IN  {join([i \in 1..Len(es) |-> es[p[i]]], ",") : p \in Orders(1..Len(es))}

\* C9: in explicit-list mode the result holds get_user(entry, realm) once
\* for each distinct trimmed entry of the comma-separated list (so the same
\* user twice for two entries that differ in letter case); the call fails,
\* returning nothing, if some entry does not resolve; and the same list
\* with its entries in another order gives the same collection.
C9_ExplicitList ==
    (Called("get_users") /\ ListMode) =>
        LET E == TrimmedEntries
            found == [e \in E |-> get_user(e, call.realm)]
        IN  /\ IF \A e \in E : found[e].kind = "return"
               THEN /\ result.kind = "return"
                    /\ Len(result.value) = Cardinality(E)
                    /\ \A e \in E :
                          Count(result.value, found[e].value) =
                              Cardinality({f \in E : found[f].value = found[e].value})
               ELSE Failed
            /\ \A other \in Reordered :
                  LET options == [OptionsOf EXCEPT !.users = other]
                  IN  \E order \in IterationOrders(options) :
                         SameCollection(
                             get_users(options, call.realm, call.is_bot,
                                       call.include_deactivated, order),
                             result)

\* two entries that differ in letter case only: the same user is in the
\* result twice
C9_Witness ==
    /\ Called("get_users")
    /\ ListMode
    /\ result.kind = "return"
    /\ Len(result.value) = 2
    /\ result.value[1] = result.value[2]

SelectionTexts == {NeitherText, BothText, NeedsRealmText}

\* C10: without the all_users key get_users makes no selection-mode check:
\* with users None it returns an empty list, with or without a realm, and
\* with a users string it resolves the list; a selection-mode error is
\* raised only when the all_users key is there.
C10_NoSelectionChecks ==
    Called("get_users") =>
        /\ (~HasKey(OptionsOf, "all_users") /\ HasKey(OptionsOf, "users")) =>
              IF OptionsOf.users = NoneStr THEN result = Return(<<>>)
              ELSE result \in {Resolve(order, call.realm) : order \in Orders(TrimmedEntries)}
        /\ (result.kind = "CommandError" /\ result.text \in SelectionTexts) =>
              HasKey(OptionsOf, "all_users")

\* no all_users key, users None and no realm: an empty list, where the
\* same call with all_users False fails
C10_Witness ==
    /\ Called("get_users")
    /\ ~HasKey(OptionsOf, "all_users")
    /\ HasKey(OptionsOf, "users")
    /\ OptionsOf.users = NoneStr
    /\ call.realm = {}
    /\ users # {}
    /\ result = Return(<<>>)

=============================================================================
